---- MODULE Spec2Model ----
(***************************************************************************)
(* Model of the customer-support ticket classifier:                        *)
(*   src/agent_classifier.py  AgentClassifier (classify_ticket,            *)
(*                            process_batch)                               *)
(*   src/app.py               the Flask routes around the one classifier   *)
(*                                                                         *)
(* Texts are sequences of one-character strings, so that str.strip,        *)
(* str.split, the 'in' test and json.loads are computed on characters.     *)
(* Python values are tagged records [py |-> <type name>, ...].             *)
(***************************************************************************)
EXTENDS Integers, Sequences, FiniteSets, TLC

VARIABLES
    api_key,      \* os.getenv('GEMINI_API_KEY') when app.py is imported
    classifier,   \* app.py module global: "ready" or "None"
    handler,      \* the route now being served: "idle", "classify", "process_batch"
    pc,           \* position inside the running handler
    tickets,      \* process_batch: the list it was called with
    i,            \* process_batch: number of loop iterations completed
    results,      \* process_batch: the local list `results`
    ticket,       \* classify_ticket: its argument
    response,     \* classify_ticket: what generate_content / .text produced
    result,       \* classify_ticket: its return value (NoResult before that)
    exc,          \* the exception now propagating out of the classifier, or NoExc
    requests,     \* prompts sent to the external service while serving this request
    summary,      \* process_batch: the SUMMARY line printed, or NoSummary
    http          \* the HTTP response of the last/current request

vars == <<api_key, classifier, handler, pc, tickets, i, results, ticket,
          response, result, exc, requests, summary, http>>

-----------------------------------------------------------------------------
(* Python values *)

None == [py |-> "None"]
PyStr(chars) == [py |-> "str", chars |-> chars]
PyInt(digits) == [py |-> "int", digits |-> digits]
\* a float, by the text json.loads read it from (NaN, Infinity, -Infinity included)
PyFloat(digits) == [py |-> "float", digits |-> digits]
PyBool(b) == [py |-> "bool", b |-> b]
PyList(items) == [py |-> "list", items |-> items]
PyDict(items) == [py |-> "dict", items |-> items]

-----------------------------------------------------------------------------
(* str operations used by classify_ticket *)

\* characters str.strip() removes that the modelled texts can hold
Whitespace == {" ", "\n", "\t", "\r"}

RECURSIVE LStrip(_)
LStrip(s) ==
    IF s # <<>> /\ Head(s) \in Whitespace THEN LStrip(Tail(s)) ELSE s

RECURSIVE RStrip(_)
RStrip(s) ==
    IF s # <<>> /\ s[Len(s)] \in Whitespace
    THEN RStrip(SubSeq(s, 1, Len(s) - 1))
    ELSE s

\* str.strip()
Strip(s) == RStrip(LStrip(s))

\* sep occurs in s at index k (1-based)
OccursAt(s, sep, k) ==
    /\ k >= 1
    /\ k + Len(sep) - 1 <= Len(s)
    /\ \A j \in 1..Len(sep) : s[k + j - 1] = sep[j]

\* index of the leftmost occurrence of sep in s, 0 when there is none (str.find + 1)
Find(s, sep) ==
    LET hits == {k \in 1..Len(s) : OccursAt(s, sep, k)}
    IN  IF hits = {} THEN 0 ELSE CHOOSE k \in hits : \A h \in hits : k <= h

\* sep in s
Contains(s, sep) == Find(s, sep) # 0

\* s.split(sep): the pieces between the leftmost, non-overlapping occurrences
RECURSIVE Split(_, _)
Split(s, sep) ==
    LET k == Find(s, sep)
    IN  IF k = 0
        THEN <<s>>
        ELSE <<SubSeq(s, 1, k - 1)>> \o Split(SubSeq(s, k + Len(sep), Len(s)), sep)

\* Python's 0-based subscript on a list
Item(list, n) == list[n + 1]

-----------------------------------------------------------------------------
(* json.loads (json.decoder, json.scanner): objects, arrays, strings       *)
(* without backslash escapes, numbers, the literals null, true, false and  *)
(* the constants NaN, Infinity, -Infinity that Python accepts.  Positions  *)
(* are 1-based indexes; the reported error position is the 0-based         *)
(* character offset, as in str(e).                                         *)

JsonWhitespace == {" ", "\t", "\n", "\r"}
Digits == {"0", "1", "2", "3", "4", "5", "6", "7", "8", "9"}
ControlChars == {"\n", "\t", "\r"}

\* s[k:k+1]
CharAt(s, k) == IF k >= 1 /\ k <= Len(s) THEN s[k] ELSE ""

\* WHITESPACE.match(s, k).end()
RECURSIVE SkipWs(_, _)
SkipWs(s, k) ==
    IF k <= Len(s) /\ s[k] \in JsonWhitespace THEN SkipWs(s, k + 1) ELSE k

Ok(val, end) == [ok |-> TRUE, val |-> val, end |-> end, msg |-> ""]
Err(msg, pos) == [ok |-> FALSE, val |-> None, end |-> pos, msg |-> msg]
\* StopIteration(idx) out of scan_once
Stop(pos) == Err("StopIteration", pos)

\* scanstring(s, k): k is the index after the opening quote
RECURSIVE ScanChars(_, _, _)
ScanChars(s, begin, k) ==
    IF k > Len(s) THEN Err("Unterminated string starting at", begin - 1)
    ELSE IF s[k] = "\"" THEN Ok(SubSeq(s, begin, k - 1), k + 1)
    ELSE IF s[k] \in ControlChars THEN Err("Invalid control character at", k)
    ELSE ScanChars(s, begin, k + 1)

ScanString(s, k) == ScanChars(s, k, k)

RECURSIVE DigitsEnd(_, _)
DigitsEnd(s, k) ==
    IF k <= Len(s) /\ s[k] \in Digits THEN DigitsEnd(s, k + 1) ELSE k

\* NUMBER_RE, group 1 at k: -?(0|[1-9]\d*); the index after it, 0 when no match
IntegerEnd(s, k) ==
    LET d == IF CharAt(s, k) = "-" THEN k + 1 ELSE k
    IN  IF CharAt(s, d) = "0" THEN d + 1
        ELSE IF CharAt(s, d) \in Digits THEN DigitsEnd(s, d)
        ELSE 0

\* NUMBER_RE, group 2 at k: (\.\d+)?
FractionEnd(s, k) ==
    IF CharAt(s, k) = "." /\ CharAt(s, k + 1) \in Digits THEN DigitsEnd(s, k + 1) ELSE k

\* NUMBER_RE, group 3 at k: ([eE][-+]?\d+)?
ExponentEnd(s, k) ==
    LET d == IF CharAt(s, k + 1) \in {"-", "+"} THEN k + 2 ELSE k + 1
    IN  IF CharAt(s, k) \in {"e", "E"} /\ CharAt(s, d) \in Digits
        THEN DigitsEnd(s, d)
        ELSE k

\* int(text) of group 1, as its digits
IntOf(text) == IF text = <<"-", "0">> THEN <<"0">> ELSE text

\* the number scan_once reads at k, given the end of its integer part
Number(s, k, integer) ==
    LET end == ExponentEnd(s, FractionEnd(s, integer))
    IN  IF end = integer
        THEN Ok(PyInt(IntOf(SubSeq(s, k, end - 1))), end)
        ELSE Ok(PyFloat(SubSeq(s, k, end - 1)), end)

\* dict(pairs): a later pair with the same key replaces the value of the earlier
RECURSIVE DictOf(_)
DictOf(pairs) ==
    IF pairs = <<>> THEN <<>>
    ELSE LET last == pairs[Len(pairs)]
             init == DictOf(SubSeq(pairs, 1, Len(pairs) - 1))
         IN  IF \E n \in 1..Len(init) : init[n].key = last.key
             THEN [n \in 1..Len(init) |->
                      IF init[n].key = last.key THEN last ELSE init[n]]
             ELSE Append(init, last)

Infinity == <<"I", "n", "f", "i", "n", "i", "t", "y">>

RECURSIVE ScanOnce(_, _)
RECURSIVE ObjectPairs(_, _, _)
RECURSIVE ArrayValues(_, _, _)

\* JSONObject's loop; k is the index after the opening quote of a key
ObjectPairs(s, k, pairs) ==
    LET key == ScanString(s, k)
    IN  IF ~key.ok THEN key
        ELSE LET colon == SkipWs(s, key.end)
             IN  IF CharAt(s, colon) # ":"
                 THEN Err("Expecting ':' delimiter", colon)
                 ELSE LET value == ScanOnce(s, SkipWs(s, colon + 1))
                      IN  IF ~value.ok
                          THEN IF value.msg = "StopIteration"
                               THEN Err("Expecting value", value.end)
                               ELSE value
                          ELSE LET more == Append(pairs, [key |-> key.val, value |-> value.val])
                                   sep == SkipWs(s, value.end)
                                   next == SkipWs(s, sep + 1)
                               IN  IF CharAt(s, sep) = "}"
                                   THEN Ok(PyDict(DictOf(more)), sep + 1)
                                   ELSE IF CharAt(s, sep) # ","
                                   THEN Err("Expecting ',' delimiter", sep)
                                   ELSE IF CharAt(s, next) # "\""
                                   THEN Err("Expecting property name enclosed in double quotes", next)
                                   ELSE ObjectPairs(s, next + 1, more)

\* JSONObject(s, k): k is the index after the opening brace
ParseObject(s, k) ==
    LET first == SkipWs(s, k)
    IN  IF CharAt(s, first) = "}" THEN Ok(PyDict(<<>>), first + 1)
        ELSE IF CharAt(s, first) # "\""
        THEN Err("Expecting property name enclosed in double quotes", first)
        ELSE ObjectPairs(s, first + 1, <<>>)

\* JSONArray's loop; k is the index where the next value starts
ArrayValues(s, k, values) ==
    LET value == ScanOnce(s, k)
    IN  IF ~value.ok
        THEN IF value.msg = "StopIteration"
             THEN Err("Expecting value", value.end)
             ELSE value
        ELSE LET more == Append(values, value.val)
                 sep == SkipWs(s, value.end)
             IN  IF CharAt(s, sep) = "]"
                 THEN Ok(PyList(more), sep + 1)
                 ELSE IF CharAt(s, sep) # ","
                 THEN Err("Expecting ',' delimiter", sep)
                 ELSE ArrayValues(s, SkipWs(s, sep + 1), more)

\* JSONArray(s, k): k is the index after the opening bracket
ParseArray(s, k) ==
    LET first == SkipWs(s, k)
    IN  IF CharAt(s, first) = "]" THEN Ok(PyList(<<>>), first + 1)
        ELSE ArrayValues(s, first, <<>>)

\* scanner.py _scan_once(s, k)
ScanOnce(s, k) ==
    LET c == CharAt(s, k)
    IN  IF c = "" THEN Stop(k)
        ELSE IF c = "\"" THEN
            LET str == ScanString(s, k + 1)
            IN  IF str.ok THEN Ok(PyStr(str.val), str.end) ELSE str
        ELSE IF c = "{" THEN ParseObject(s, k + 1)
        ELSE IF c = "[" THEN ParseArray(s, k + 1)
        ELSE IF c = "n" /\ OccursAt(s, <<"n", "u", "l", "l">>, k) THEN Ok(None, k + 4)
        ELSE IF c = "t" /\ OccursAt(s, <<"t", "r", "u", "e">>, k) THEN Ok(PyBool(TRUE), k + 4)
        ELSE IF c = "f" /\ OccursAt(s, <<"f", "a", "l", "s", "e">>, k) THEN Ok(PyBool(FALSE), k + 5)
        ELSE IF IntegerEnd(s, k) # 0 THEN Number(s, k, IntegerEnd(s, k))
        ELSE IF c = "N" /\ OccursAt(s, <<"N", "a", "N">>, k)
        THEN Ok(PyFloat(<<"N", "a", "N">>), k + 3)
        ELSE IF c = "I" /\ OccursAt(s, Infinity, k)
        THEN Ok(PyFloat(Infinity), k + 8)
        ELSE IF c = "-" /\ OccursAt(s, <<"-">> \o Infinity, k)
        THEN Ok(PyFloat(<<"-">> \o Infinity), k + 9)
        ELSE Stop(k)

\* json.loads(s): [ok, val] or the JSONDecodeError [msg, end]
JsonLoads(s) ==
    LET value == ScanOnce(s, SkipWs(s, 1))
        end == SkipWs(s, value.end)
    IN  IF ~value.ok
        THEN IF value.msg = "StopIteration"
             THEN Err("Expecting value", value.end)
             ELSE value
        ELSE IF end # Len(s) + 1 THEN Err("Extra data", end)
        ELSE Ok(value.val, end)

\* str(e) of a JSONDecodeError: "<msg>: line .. column .. (char <pos>)"
DecodeErrorText(e) == <<e.msg, ": char ", e.end - 1>>

-----------------------------------------------------------------------------
(* classify_ticket: response extraction *)

\* the character U+0060 (a string literal of the module cannot hold it)
Backtick == "U+0060"
Fence == <<Backtick, Backtick, Backtick>>
JsonFence == Fence \o <<"j", "s", "o", "n">>

\* ExtractText with the two tests in the other order: any fence first
ExtractTextGenericFirst(text) ==
    LET response_text == Strip(text)
    IN  IF Contains(response_text, Fence)
        THEN Strip(Item(Split(Item(Split(response_text, Fence), 1), Fence), 0))
        ELSE IF Contains(response_text, JsonFence)
        THEN Strip(Item(Split(Item(Split(response_text, JsonFence), 1), Fence), 0))
        ELSE response_text

\* the text json.loads is given: strip, then the first fenced block if any
ExtractText(text) ==
    LET response_text == Strip(text)
    IN  IF Contains(response_text, JsonFence)
        THEN Strip(Item(Split(Item(Split(response_text, JsonFence), 1), Fence), 0))
        ELSE IF Contains(response_text, Fence)
        THEN Strip(Item(Split(Item(Split(response_text, Fence), 1), Fence), 0))
        ELSE response_text

-----------------------------------------------------------------------------
(* Bounds and the inputs drawn within them *)

\* longest ticket list handed to process_batch
MaxTickets == 2
\* most pieces a response text of SpecExtract is put together from
MaxPieces == 4

\* a local that is not bound, a response not sent
Unset == [py |-> "unset"]

\* the keys classify_ticket subscripts, in the order the prompt reads them
RequiredFields ==
    <<"id", "subject", "description", "customer_email", "customer_tier", "created_at">>

FullTicket(id) ==
    [id |-> id, subject |-> "s", description |-> "d", customer_email |-> "e",
     customer_tier |-> "pro", created_at |-> "c"]

Without(t, f) == [k \in DOMAIN t \ {f} |-> t[k]]

TicketIds == {"T1", "T2"}

\* complete tickets, for every required field a ticket that lacks it, and a
\* ticket that lacks two
Tickets ==
    {FullTicket(id) : id \in TicketIds}
        \cup {Without(FullTicket("T3"), RequiredFields[n]) : n \in 1..Len(RequiredFields)}
        \cup {Without(Without(FullTicket("T4"), "created_at"), "description")}

RECURSIVE ListsUpTo(_, _)
ListsUpTo(S, n) ==
    IF n = 0 THEN {<<>>}
    ELSE LET shorter == ListsUpTo(S, n - 1)
         IN  shorter \cup {Append(l, x) : l \in {m \in shorter : Len(m) = n - 1}, x \in S}

TicketLists == ListsUpTo(Tickets, MaxTickets)

\* what open('sample_tickets.json') and json.load give: a ticket list, or an error
Loaded(ts) == [ok |-> TRUE, tickets |-> ts]
SampleFiles == {Loaded(ts) : ts \in TicketLists} \cup {[ok |-> FALSE, tickets |-> <<>>]}

RECURSIVE Concat(_)
Concat(parts) == IF parts = <<>> THEN <<>> ELSE Head(parts) \o Concat(Tail(parts))

EmptyObject == <<"{", "}">>
SmallObject == <<"{", "\"", "a", "\"", ":", "1", "}">>
EmptyArray == <<"[", "]">>
Chatter == <<"S", "o", "r", "r", "y">>

\* what response.text can be in Spec
SampleTexts ==
    { SmallObject,
      <<" ">> \o EmptyObject \o <<"\n">>,
      Chatter \o <<"\n">> \o JsonFence \o <<"\n">> \o SmallObject \o <<"\n">> \o Fence \o Chatter,
      Fence \o EmptyObject \o Fence,
      Fence \o Chatter \o Fence \o JsonFence \o EmptyObject \o Fence,
      JsonFence \o SmallObject,
      EmptyArray,
      <<"n", "u", "l", "l">>,
      <<"N", "a", "N">>,
      Chatter,
      <<>> }

\* what the response texts of SpecExtract are put together from
Pieces == {<<Backtick>>, Fence, JsonFence, EmptyObject, <<"x">>, <<" ">>, <<"1">>}

PieceTexts == {Concat(l) : l \in ListsUpTo(Pieces, MaxPieces)}

\* an exception: its class and str(e)
Exception(type, text) == [type |-> type, text |-> text]
KeyError(key) == Exception("KeyError", <<key>>)
FileNotFoundError ==
    Exception("FileNotFoundError", <<"No such file or directory: 'sample_tickets.json'">>)

\* what generate_content(...) / response.text can raise
ApiErrors ==
    { Exception("ResourceExhausted", <<"quota">>),
      Exception("ValueError", <<"response.text needs a valid Part">>),
      Exception("JSONDecodeError", <<"Expecting value", ": char ", 0>>) }

Returned(text) == [kind |-> "text", text |-> text, exc |-> Unset]
Raised(e) == [kind |-> "raise", text |-> <<>>, exc |-> e]

Outcomes(texts) == {Returned(t) : t \in texts} \cup {Raised(e) : e \in ApiErrors}

-----------------------------------------------------------------------------
(* AgentClassifier *)

\* what os.getenv('GEMINI_API_KEY') can give: None, an empty or a non-empty string
ApiKeys == {None, PyStr(<<>>), PyStr(<<"k">>)}

\* Python's truth value of None or a str
Truthy(v) == v # None /\ v # PyStr(<<>>)

\* __init__: whether it returns, and the ValueError it raises when it does not
Construct(key) ==
    IF ~Truthy(key)
    THEN [ok |-> FALSE,
          exc |-> Exception("ValueError", <<"GEMINI_API_KEY not found in .env file">>)]
    ELSE [ok |-> TRUE, exc |-> Unset]

\* app.py: classifier = AgentClassifier(), None when that raises
StartupClassifier(key) == IF Construct(key).ok THEN "ready" ELSE "None"

\* the first required key the ticket lacks, "" when it has them all
MissingField(t) ==
    LET missing == {n \in 1..Len(RequiredFields) : RequiredFields[n] \notin DOMAIN t}
    IN  IF missing = {} THEN ""
        ELSE RequiredFields[CHOOSE n \in missing : \A m \in missing : n <= m]

SystemPrompt == "You are a customer support ticket classification agent ..."

\* full_prompt: the system prompt, then the ticket's fields in order
FullPrompt(t) == <<SystemPrompt>> \o [n \in 1..Len(RequiredFields) |-> t[RequiredFields[n]]]

Success(t, classification) ==
    [success |-> TRUE, ticket_id |-> t.id, classification |-> classification]

\* ParseFailure that forgets the text it parsed
ParseFailureWithoutText(t, e, raw) ==
    [success |-> FALSE, ticket_id |-> t.id,
     error |-> <<"Failed to parse JSON response: ">> \o e.text,
     raw_response |-> None]

ParseFailure(t, e, raw) ==
    [success |-> FALSE, ticket_id |-> t.id,
     error |-> <<"Failed to parse JSON response: ">> \o e.text,
     raw_response |-> raw]

\* ApiFailure built like the parse failure, with a raw_response key
ApiFailureWithRaw(t, e) ==
    [success |-> FALSE, ticket_id |-> t.id, error |-> <<"API error: ">> \o e.text,
     raw_response |-> None]

ApiFailure(t, e) ==
    [success |-> FALSE, ticket_id |-> t.id, error |-> <<"API error: ">> \o e.text]

\* the try block of classify_ticket, given what the external call produced
ClassifyResult(t, outcome) ==
    IF outcome.kind = "raise"
    THEN IF outcome.exc.type = "JSONDecodeError"
         THEN ParseFailure(t, outcome.exc, None)
         ELSE ApiFailure(t, outcome.exc)
    ELSE LET response_text == ExtractText(outcome.text)
             classification == JsonLoads(response_text)
         IN  IF classification.ok
             THEN Success(t, classification.val)
             ELSE ParseFailure(t, Exception("JSONDecodeError", DecodeErrorText(classification)),
                               PyStr(response_text))

\* sum(1 for r in results if r['success'])
Successful(rs) == Cardinality({n \in 1..Len(rs) : rs[n].success})

-----------------------------------------------------------------------------
(* app.py responses *)

Response(route, status, body) == [route |-> route, status |-> status, body |-> body]

NotInitialized(route) ==
    Response(route, 500, [success |-> FALSE, error |-> <<"Classifier not initialized">>])

ErrorResponse(route, e) == Response(route, 500, [success |-> FALSE, error |-> e.text])

\* Flask's answer to an exception no handler caught
InternalServerError(route) == Response(route, 500, [unhandled |-> TRUE])

Health == Response("/health", 200, [status |-> "healthy", classifier_ready |-> classifier # "None"])

-----------------------------------------------------------------------------
(* State machine *)

Locals == <<tickets, i, results, ticket, response, result, exc, summary>>

ResetLocals ==
    /\ tickets' = <<>>
    /\ i' = 0
    /\ results' = <<>>
    /\ ticket' = Unset
    /\ response' = Unset
    /\ result' = Unset
    /\ exc' = Unset
    /\ summary' = Unset

Init ==
    /\ api_key \in ApiKeys
    /\ classifier = StartupClassifier(api_key)
    /\ handler = "idle"
    /\ pc = "idle"
    /\ tickets = <<>>
    /\ i = 0
    /\ results = <<>>
    /\ ticket = Unset
    /\ response = Unset
    /\ result = Unset
    /\ exc = Unset
    /\ summary = Unset
    /\ requests = <<>>
    /\ http = Unset

\* ClassifyRoute without the test of the classifier
ClassifyRouteUnchecked(t) ==
    /\ handler = "idle"
    /\ requests' = <<>>
    /\ http' = Unset
    /\ handler' = "classify"
    /\ ticket' = t
    /\ pc' = "prompt"
    /\ UNCHANGED <<tickets, i, results, response, result, exc, summary>>
    /\ UNCHANGED <<api_key, classifier>>

\* app.py classify(): POST /classify with ticket_data = t
ClassifyRoute(t) ==
    /\ handler = "idle"
    /\ requests' = <<>>
    /\ IF classifier = "None"
       THEN /\ http' = NotInitialized("/classify")
            /\ UNCHANGED <<handler, pc, Locals>>
       ELSE /\ http' = Unset
            /\ handler' = "classify"
            /\ ticket' = t
            /\ pc' = "prompt"
            /\ UNCHANGED <<tickets, i, results, response, result, exc, summary>>
    /\ UNCHANGED <<api_key, classifier>>

\* app.py process_batch(): POST /process-batch, with what reading
\* sample_tickets.json gives
ProcessBatchRoute(file) ==
    /\ handler = "idle"
    /\ requests' = <<>>
    /\ IF classifier = "None"
       THEN /\ http' = NotInitialized("/process-batch")
            /\ UNCHANGED <<handler, pc, Locals>>
       ELSE IF ~file.ok
       THEN /\ http' = ErrorResponse("/process-batch", FileNotFoundError)
            /\ UNCHANGED <<handler, pc, Locals>>
       ELSE /\ http' = Unset
            /\ handler' = "process_batch"
            /\ tickets' = file.tickets
            /\ results' = <<>>
            /\ i' = 0
            /\ pc' = "loop"
            /\ UNCHANGED <<ticket, response, result, exc, summary>>
    /\ UNCHANGED <<api_key, classifier>>

\* app.py health(): GET /health
HealthRoute ==
    /\ handler = "idle"
    /\ http' = Health
    /\ requests' = <<>>
    /\ UNCHANGED <<api_key, classifier, handler, pc, Locals>>

\* process_batch: the for statement and the progress line that reads ticket['id'];
\* after the last ticket, the summary
BatchLoop ==
    /\ handler = "process_batch"
    /\ pc = "loop"
    /\ IF i < Len(tickets)
       THEN IF "id" \in DOMAIN tickets[i + 1]
            THEN /\ ticket' = tickets[i + 1]
                 /\ pc' = "prompt"
                 /\ UNCHANGED <<exc, summary>>
            ELSE /\ exc' = KeyError("id")
                 /\ pc' = "raise"
                 /\ UNCHANGED <<ticket, summary>>
       ELSE /\ summary' = [successful |-> Successful(results), total |-> Len(tickets)]
            /\ pc' = "return"
            /\ UNCHANGED <<ticket, exc>>
    /\ UNCHANGED <<api_key, classifier, handler, tickets, i, results, response, result,
                   requests, http>>

\* BuildPrompt with the prompt built inside the try statement: the KeyError is caught
BuildPromptInsideTry ==
    /\ pc = "prompt"
    /\ IF MissingField(ticket) # ""
       THEN /\ result' = [success |-> FALSE, ticket_id |-> "",
                          error |-> <<"API error: ">> \o KeyError(MissingField(ticket)).text]
            /\ pc' = "returned"
       ELSE /\ pc' = "call"
            /\ UNCHANGED result
    /\ UNCHANGED <<api_key, classifier, handler, tickets, i, results, ticket, response,
                   exc, requests, summary, http>>

\* classify_ticket: full_prompt, built before the try statement
BuildPrompt ==
    /\ pc = "prompt"
    /\ IF MissingField(ticket) # ""
       THEN /\ exc' = KeyError(MissingField(ticket))
            /\ pc' = "raise"
       ELSE /\ pc' = "call"
            /\ UNCHANGED exc
    /\ UNCHANGED <<api_key, classifier, handler, tickets, i, results, ticket, response,
                   result, requests, summary, http>>

\* classify_ticket: self.model.generate_content(full_prompt), and what comes back
GenerateContent(texts) ==
    /\ pc = "call"
    /\ requests' = Append(requests, FullPrompt(ticket))
    /\ response' \in Outcomes(texts)
    /\ pc' = "respond"
    /\ UNCHANGED <<api_key, classifier, handler, tickets, i, results, ticket, result, exc,
                   summary, http>>

\* HandleResponse that sends the prompt once more after a failure
HandleResponseRetry ==
    /\ pc = "respond"
    /\ IF ~ClassifyResult(ticket, response).success /\ Len(requests) <= Len(results) + 1
       THEN /\ pc' = "call"
            /\ UNCHANGED result
       ELSE /\ result' = ClassifyResult(ticket, response)
            /\ pc' = "returned"
    /\ UNCHANGED <<api_key, classifier, handler, tickets, i, results, ticket, response, exc,
                   requests, summary, http>>

\* classify_ticket: the rest of the try statement and its except clauses
HandleResponse ==
    /\ pc = "respond"
    /\ result' = ClassifyResult(ticket, response)
    /\ pc' = "returned"
    /\ UNCHANGED <<api_key, classifier, handler, tickets, i, results, ticket, response, exc,
                   requests, summary, http>>

\* AppendResult that keeps one dict for every ticket: each slot shows the latest result
AppendResultShared ==
    /\ handler = "process_batch"
    /\ pc = "returned"
    /\ results' = [n \in 1..(Len(results) + 1) |-> result]
    /\ i' = i + 1
    /\ result' = Unset
    /\ response' = Unset
    /\ ticket' = Unset
    /\ pc' = "loop"
    /\ UNCHANGED <<api_key, classifier, handler, tickets, exc, requests, summary, http>>

\* process_batch: the rest of the loop body, results.append(result)
AppendResult ==
    /\ handler = "process_batch"
    /\ pc = "returned"
    /\ results' = Append(results, result)
    /\ i' = i + 1
    /\ result' = Unset
    /\ response' = Unset
    /\ ticket' = Unset
    /\ pc' = "loop"
    /\ UNCHANGED <<api_key, classifier, handler, tickets, exc, requests, summary, http>>

\* app.py classify(): return jsonify(result)
ClassifyReturn ==
    /\ handler = "classify"
    /\ pc = "returned"
    /\ http' = Response("/classify", 200, result)
    /\ handler' = "idle"
    /\ pc' = "idle"
    /\ ResetLocals
    /\ UNCHANGED <<api_key, classifier, requests>>

\* app.py process_batch(): return jsonify(results)
BatchReturn ==
    /\ handler = "process_batch"
    /\ pc = "return"
    /\ http' = Response("/process-batch", 200, PyList(results))
    /\ handler' = "idle"
    /\ pc' = "idle"
    /\ ResetLocals
    /\ UNCHANGED <<api_key, classifier, requests>>

\* an exception leaves the classifier: app.py process_batch() catches it,
\* app.py classify() does not
Propagate ==
    /\ pc = "raise"
    /\ http' = IF handler = "process_batch"
               THEN ErrorResponse("/process-batch", exc)
               ELSE InternalServerError("/classify")
    /\ handler' = "idle"
    /\ pc' = "idle"
    /\ ResetLocals
    /\ UNCHANGED <<api_key, classifier, requests>>

Next ==
    \/ \E t \in Tickets : ClassifyRoute(t)
    \/ \E file \in SampleFiles : ProcessBatchRoute(file)
    \/ HealthRoute
    \/ BatchLoop
    \/ BuildPrompt
    \/ GenerateContent(SampleTexts)
    \/ HandleResponse
    \/ AppendResult
    \/ ClassifyReturn
    \/ BatchReturn
    \/ Propagate

Spec == Init /\ [][Next]_vars

\* one classify_ticket call of a ready classifier, over every text in PieceTexts
InitExtract ==
    /\ api_key = PyStr(<<"k">>)
    /\ classifier = StartupClassifier(api_key)
    /\ handler = "classify"
    /\ pc = "call"
    /\ tickets = <<>>
    /\ i = 0
    /\ results = <<>>
    /\ ticket \in {FullTicket(id) : id \in TicketIds}
    /\ response = Unset
    /\ result = Unset
    /\ exc = Unset
    /\ summary = Unset
    /\ requests = <<>>
    /\ http = Unset

NextExtract ==
    \/ GenerateContent(PieceTexts)
    \/ HandleResponse
    \/ ClassifyReturn

SpecExtract == InitExtract /\ [][NextExtract]_vars

-----------------------------------------------------------------------------
(* Properties *)

BatchStopped == handler = "process_batch" /\ pc \in {"return", "raise"}
CallReturned == pc = "returned"
Complete(t) == MissingField(t) = ""

\* C1: process_batch over any ticket list of length N returns N results, the n-th
\* carrying the id of the n-th ticket, and the summary line reports K/N, K being
\* the number of tickets classified successfully.
C1_BatchReturnsOneResultPerTicket ==
    BatchStopped =>
        /\ pc = "return"
        /\ Len(results) = Len(tickets)
        /\ \A n \in 1..Len(tickets) : results[n].ticket_id = tickets[n].id
        /\ summary = [successful |-> Cardinality({n \in 1..Len(results) : results[n].success}),
                      total |-> Len(tickets)]

\* C1, for lists of complete tickets only: the statement holds of a batch in which
\* every ticket has every required field.
C1_CompleteTicketsOnly ==
    (BatchStopped /\ \A n \in 1..Len(tickets) : Complete(tickets[n])) =>
        /\ pc = "return"
        /\ Len(results) = Len(tickets)
        /\ \A n \in 1..Len(tickets) : results[n].ticket_id = tickets[n].id
        /\ summary = [successful |-> Cardinality({n \in 1..Len(results) : results[n].success}),
                      total |-> Len(tickets)]

\* C2: a failure on one ticket, whatever its kind, never aborts the batch: no
\* exception leaves process_batch, and when it ends every ticket has one result.
C2_FailureNeverAbortsBatch ==
    handler = "process_batch" =>
        /\ pc # "raise"
        /\ pc = "return" => Len(results) = Len(tickets)

\* C3: classify_ticket, given a ticket that lacks a required field, raises the
\* KeyError of the first missing field before any request for that ticket is sent,
\* and never turns it into a result.
C3_MissingFieldRaisesBeforeCall ==
    (ticket # Unset /\ ~Complete(ticket)) =>
        /\ pc \in {"prompt", "raise"}
        /\ response = Unset
        /\ result = Unset
        /\ Len(requests) = Len(results)
        /\ pc = "raise" => exc = KeyError(MissingField(ticket))

C3_Witness ==
    /\ handler = "classify"
    /\ pc = "raise"
    /\ ticket # Unset
    /\ MissingField(ticket) = "created_at"
    /\ requests = <<>>

C5_ApiErrorFailure ==
    (CallReturned /\ response.kind = "raise" /\ response.exc.type # "JSONDecodeError") =>
        /\ exc = Unset
        /\ DOMAIN result = {"success", "ticket_id", "error"}
        /\ result.success = FALSE
        /\ result.ticket_id = ticket.id
        /\ result.error = <<"API error: ">> \o response.exc.text

C5_Witness ==
    /\ handler = "process_batch"
    /\ CallReturned
    /\ response.kind = "raise"
    /\ response.exc.type = "ResourceExhausted"
    /\ result.error = <<"API error: ", "quota">>

\* index of the leftmost occurrence of sep in s at or after from, 0 when none
FindFrom(s, sep, from) ==
    LET hits == {k \in from..Len(s) : OccursAt(s, sep, k)}
    IN  IF hits = {} THEN 0 ELSE CHOOSE k \in hits : \A h \in hits : k <= h

\* what follows the opening fence at open (width characters) up to the next
\* fence, or up to the end of the text when no fence follows
FencedContent(s, open, width) ==
    LET close == FindFrom(s, Fence, open + width)
    IN  SubSeq(s, open + width, IF close = 0 THEN Len(s) ELSE close - 1)

\* the text C6 says is parsed, by positions in the trimmed text
SelectedText(text) ==
    LET trimmed == Strip(text)
        json == FindFrom(trimmed, JsonFence, 1)
        any == FindFrom(trimmed, Fence, 1)
    IN  IF json # 0 THEN Strip(FencedContent(trimmed, json, Len(JsonFence)))
        ELSE IF any # 0 THEN Strip(FencedContent(trimmed, any, Len(Fence)))
        ELSE trimmed

\* the result C6 expects of a call that was given text and parsed selected
ResultOfParsing(selected) ==
    LET decoded == JsonLoads(selected)
    IN  IF decoded.ok
        THEN result = [success |-> TRUE, ticket_id |-> ticket.id,
                       classification |-> decoded.val]
        ELSE /\ result.success = FALSE
             /\ result.raw_response = PyStr(selected)

\* C6: the text classify_ticket parses is, for a text with a JSON-marked fence, the
\* (trimmed) content between the first JSON-marked fence and the next fence after
\* it, even when another fence comes earlier; else, for a text with a fence, the
\* content between the first two fences; else the whole trimmed text.  Nothing
\* outside the selected fences reaches the result.
C6_FirstFencedBlockIsParsed ==
    (CallReturned /\ response.kind = "text") => ResultOfParsing(SelectedText(response.text))

\* the content after a JSON-marked fence at open: up to the next fence, but when
\* that fence is a run of four or five backticks followed by json, up to the
\* JSON-marked fence that ends the run
JsonFencedContent(s, open) ==
    LET from == open + Len(JsonFence)
        close == FindFrom(s, Fence, from)
        json == FindFrom(s, JsonFence, from)
    IN  IF close # 0 /\ json \in {close + 1, close + 2}
        THEN SubSeq(s, from, json - 1)
        ELSE FencedContent(s, open, Len(JsonFence))

SelectedTextAmended(text) ==
    LET trimmed == Strip(text)
        json == FindFrom(trimmed, JsonFence, 1)
        any == FindFrom(trimmed, Fence, 1)
    IN  IF json # 0 THEN Strip(JsonFencedContent(trimmed, json))
        ELSE IF any # 0 THEN Strip(FencedContent(trimmed, any, Len(Fence)))
        ELSE trimmed

\* C6, amended: as C6, except that when the fence after the first JSON-marked
\* fence is a run of four or five backticks followed by json, the content runs up
\* to the JSON-marked fence that ends the run, so the run's first one or two
\* backticks are parsed too; and when no fence follows the opening fence, the
\* content runs to the end of the text.
C6_FirstFencedBlockUpToJsonFence ==
    (CallReturned /\ response.kind = "text") =>
        ResultOfParsing(SelectedTextAmended(response.text))

C6_Witness ==
    /\ CallReturned
    /\ response.kind = "text"
    /\ response.text = Fence \o JsonFence \o EmptyObject \o Fence
    /\ result.success
    /\ result.classification = PyDict(<<>>)

\* C7: a Success result always carries a JSON object; a text that decodes to an
\* array, string, number, boolean or null never yields Success.
C7_SuccessIsAnObject ==
    (CallReturned /\ result.success) => result.classification.py = "dict"

\* C8: every classify_ticket call sends exactly one request, and a batch of N
\* tickets sends exactly N.
C8_ExactlyOneRequestPerTicket ==
    /\ (handler = "classify" /\ pc \in {"returned", "raise"}) => Len(requests) = 1
    /\ BatchStopped => Len(requests) = Len(tickets)

InFlight == IF pc \in {"respond", "returned"} THEN 1 ELSE 0

\* C8, amended: a classify_ticket call sends at most one request and never a second
\* one after a failure: one when the ticket has every required field, none when it
\* lacks one.  process_batch sends the requests one at a time in input order, the
\* n-th for the n-th ticket and only after the results of the tickets before it
\* were appended: one request per ticket that gets a result.
C8_OneRequestPerResultInOrder ==
    /\ handler = "classify" =>
           /\ Len(requests) = InFlight
           /\ pc = "raise" => ~Complete(ticket)
           /\ InFlight = 1 => (Complete(ticket) /\ requests = <<FullPrompt(ticket)>>)
    /\ handler = "process_batch" =>
           /\ Len(results) = i
           /\ Len(requests) = Len(results) + InFlight
           /\ \A n \in 1..Len(requests) : requests[n] = FullPrompt(tickets[n])
           /\ pc = "return" => Len(requests) = Len(tickets)

C8_Witness ==
    /\ handler = "process_batch"
    /\ pc = "return"
    /\ Len(requests) = 2
    /\ ~results[1].success
    /\ results[2].success

\* C9: without an API key at construction, AgentClassifier() raises ValueError,
\* the classifier stays None, every /classify and /process-batch request is
\* answered "Classifier not initialized" with no request sent to the external
\* service, and /health reports classifier_ready false.
C9_NoKeyNoClassifier ==
    ~Truthy(api_key) =>
        /\ ~Construct(api_key).ok
        /\ Construct(api_key).exc.type = "ValueError"
        /\ classifier = "None"
        /\ handler = "idle"
        /\ requests = <<>>
        /\ http \in { Unset,
                      NotInitialized("/classify"),
                      NotInitialized("/process-batch"),
                      Response("/health", 200,
                               [status |-> "healthy", classifier_ready |-> FALSE]) }

C9_Witness ==
    /\ api_key = None
    /\ http = NotInitialized("/process-batch")
    /\ http.body.error = <<"Classifier not initialized">>

SuccessKeys == {"success", "ticket_id", "classification"}
FailureKeys == {{"success", "ticket_id", "error"},
                {"success", "ticket_id", "error", "raw_response"}}

Shaped(r) ==
    IF r.success THEN DOMAIN r = SuccessKeys ELSE DOMAIN r \in FailureKeys

C10_Shape ==
    /\ result # Unset => (Shaped(result) /\ result.ticket_id = ticket.id)
    /\ \A n \in 1..Len(results) : Shaped(results[n]) /\ results[n].ticket_id = tickets[n].id

C10_AppendOnly ==
    (handler = "process_batch" /\ handler' = "process_batch") =>
        /\ Len(results') >= Len(results)
        /\ SubSeq(results', 1, Len(results)) = results

\* C10: every result of classify_ticket is a Success (success, ticket_id,
\* classification) or a Failure (success, ticket_id, error, and possibly
\* raw_response) with the id of the ticket passed in, and a result appended to the
\* batch output is never changed while later tickets are processed.
C10_TwoShapesNeverChanged == []C10_Shape /\ [][C10_AppendOnly]_vars

C10_Witness ==
    /\ handler = "process_batch"
    /\ pc = "return"
    /\ Len(results) = 2
    /\ results[1].success
    /\ ~results[2].success
    /\ "raw_response" \in DOMAIN results[2]
====
